---- MODULE Spec2Model ----
(***************************************************************************)
(* Model of intrusive_list::list (src/include/intrusive_list/list.h).      *)
(*                                                                         *)
(* Memory is a map from the address of every list_node (the list's head_   *)
(* and the node1 field of every element object) to its next/prev pointers. *)
(* Every operation is the sequence of pointer writes of its C++ body.      *)
(* Next to the memory the model keeps the bookkeeping a caller (or the     *)
(* tests, with their std::list) keeps: a reference sequence, the pointers  *)
(* before the last operation, and the progress of an iterator loop.        *)
(***************************************************************************)
EXTENDS Integers, Sequences, FiniteSets, TLC

VARIABLES mem,      \* list_node address -> [next, prev]
          ref,      \* reference sequence of element objects (the tests' std::list)
          it,       \* Iterator::node of the running loop, Null when no loop runs
          trav,     \* the running loop: what it started on, visited and erased
          pushRun,  \* the pushes made since the list was last empty, when all of one kind
          rotBase,  \* memory when the current run of rotate_left calls began
          rotCount, \* number of rotate_left calls in the current run
          pre,      \* memory before the last operation
          lastOp,   \* the last operation and its argument
          refB,     \* reference sequence of a second list, where there is one
          pc,       \* the pointer write an operation in progress has reached
          inp,      \* the inputs of the function under study
          out       \* the values returned so far

vars == <<mem, ref, it, trav, pushRun, rotBase, rotCount, pre, lastOp,
          refB, pc, inp, out>>

\* what the operations of a single list<T, &T::node1> leave alone
others == <<refB, pc, inp, out>>

-----------------------------------------------------------------------------
(* Bounds and layout *)

NumElems == 4

Null == 0

\* list_test_struct { int value; list_node node1; list_node node2; } on LP64
OffsetNode1 == 8
SizeofT == 40

ObjBase == 4000
ListAddr == 400

ObjAddr(i) == ObjBase + (i - 1) * SizeofT

Elems == { ObjAddr(i) : i \in 1..NumElems }

\* Pointers are PtrBits wide (a scaled-down machine word); intptr_t is the
\* two's complement reading of the same bits.
PtrBits == 13

PtrMod == 2 ^ PtrBits

\* reinterpret_cast<intptr_t>(pointer)
to_intptr(p) == IF p >= PtrMod \div 2 THEN p - PtrMod ELSE p

\* reinterpret_cast<Type *>(integer): the low PtrBits bits
to_ptr(i) == i % PtrMod

\* &(o.*member) for the object at address obj: a pointer to data member is the
\* member's offset in the layout of Type
field_of(obj, member) == to_ptr(obj + member)

\* offset_of(member): the address of the member in an object placed at 0
offset_of_member(member) == to_intptr(field_of(0, member))

\* offset_of(&list_test_struct::node1): the same for every instance
offset_of == offset_of_member(OffsetNode1)

\* variant: the offset is subtracted from the list_node pointer, in units of
\* sizeof(list_node)
owner_of_Scaled(ptr, off) == to_ptr(to_intptr(ptr) - 16 * off)

owner_of(ptr, off) == to_ptr(to_intptr(ptr) - off)

get_node(item) == item + offset_of

get_owner(member) == owner_of(member, offset_of)

\* &head_ of the list object
head_ == ListAddr

Nodes == {head_} \cup { get_node(e) : e \in Elems }

-----------------------------------------------------------------------------
(* Sequence helpers for the reference sequence *)

Range(s) == { s[i] : i \in 1..Len(s) }

Reverse(s) == [ i \in 1..Len(s) |-> s[Len(s) + 1 - i] ]

Without(s, x) == SelectSeq(s, LAMBDA y : y # x)

Front(s) == SubSeq(s, 1, Len(s) - 1)

-----------------------------------------------------------------------------
(* list_node and internal:: functions, as sequences of pointer writes *)

SetNext(m, n, v) == [m EXCEPT ![n].next = v]

SetPrev(m, n, v) == [m EXCEPT ![n].prev = v]

\* variant: the predecessor's next is not rewritten
remove_self_OneSided(m, n) ==
  LET m1 == SetPrev(m, m[n].next, m[n].prev)
      m3 == SetNext(m1, n, Null)
      m4 == SetPrev(m3, n, Null)
  IN  m4

\* variant: the removed node keeps its prev
remove_self_KeepPrev(m, n) ==
  LET m1 == SetPrev(m, m[n].next, m[n].prev)
      m2 == SetNext(m1, m1[n].prev, m1[n].next)
      m3 == SetNext(m2, n, Null)
  IN  m3

\* variant: the removed node keeps both of its links
remove_self_NoClear(m, n) ==
  LET m1 == SetPrev(m, m[n].next, m[n].prev)
      m2 == SetNext(m1, m1[n].prev, m1[n].next)
  IN  m2

remove_self_from_list(m, n) ==
  LET m1 == SetPrev(m, m[n].next, m[n].prev)
      m2 == SetNext(m1, m1[n].prev, m1[n].next)
      m3 == SetNext(m2, n, Null)
      m4 == SetPrev(m3, n, Null)
  IN  m4

have_container(m, n) == m[n].next # Null /\ m[n].prev # Null

\* variant: the successor's prev is not rewritten
_list_add_NoBackLink(m, new, prev, next) ==
  LET m2 == SetNext(m, new, next)
      m3 == SetPrev(m2, new, prev)
      m4 == SetNext(m3, prev, new)
  IN  m4

_list_add(m, new, prev, next) ==
  LET m1 == SetPrev(m, next, new)
      m2 == SetNext(m1, new, next)
      m3 == SetPrev(m2, new, prev)
      m4 == SetNext(m3, prev, new)
  IN  m4

\* variant: inserts before the head
list_add_AtTail(m, new, head) == _list_add(m, new, m[head].prev, head)

list_add(m, new, head) == _list_add(m, new, head, m[head].next)

\* variant: inserts after the head
list_add_tail_AtFront(m, new, head) == _list_add(m, new, head, m[head].next)

list_add_tail(m, new, head) == _list_add(m, new, m[head].prev, head)

\* variant: re-adds after the head
list_move_tail_ToFront(m, list, head) ==
  list_add(remove_self_from_list(m, list), list, head)

\* variant: re-adds without unlinking first
list_move_tail_NoUnlink(m, list, head) == list_add_tail(m, list, head)

list_move_tail(m, list, head) ==
  list_add_tail(remove_self_from_list(m, list), list, head)

\* variant: compares the two ends
list_empty_NextEqPrev(m, head) == m[head].next = m[head].prev

list_empty(m, head) == m[head].next = head

list_rotate_left(m, head) ==
  IF ~list_empty(m, head) THEN list_move_tail(m, m[head].next, head) ELSE m

\* variant: no test for the empty list
list_is_singular_NoEmptyCheck(m, head) == m[head].next = m[head].prev

list_is_singular(m, head) ==
  ~list_empty(m, head) /\ m[head].next = m[head].prev

-----------------------------------------------------------------------------
(* class list<T, node_field> *)

front(m) == get_owner(m[head_].next)

back(m) == get_owner(m[head_].prev)

push_front(m, item) == list_add(m, get_node(item), head_)

\* variant: push_back inserts at the front
push_back_AsFront(m, item) == list_add(m, get_node(item), head_)

push_back(m, item) == list_add_tail(m, get_node(item), head_)

\* variant: the membership test is inverted
remove_if_exists_Inverted(m, item) ==
  IF ~have_container(m, get_node(item))
  THEN remove_self_from_list(m, get_node(item))
  ELSE m

remove_if_exists(m, item) ==
  IF have_container(m, get_node(item))
  THEN remove_self_from_list(m, get_node(item))
  ELSE m

rotate_left(m) == list_rotate_left(m, head_)

is_singular(m) == list_is_singular(m, head_)

\* variant: pop_front tests for the empty list
pop_front_Checked(m) ==
  IF list_empty(m, head_) THEN m
  ELSE remove_self_from_list(m, get_node(front(m)))

pop_front(m) == remove_self_from_list(m, get_node(front(m)))

pop_back(m) == remove_self_from_list(m, get_node(back(m)))

empty(m) == list_empty(m, head_)

begin(m) == m[head_].next

end == head_

\* Iterator::operator++
IterNext(m, node) == m[node].next

\* Iterator::operator*
IterDeref(node) == get_owner(node)

\* variant: reads position.node->next after the removal
erase_ReadAfterRemove(m, position) ==
  LET m1 == remove_self_from_list(m, position)
  IN  [ret |-> m1[position].next, mem |-> m1]

\* erase(position): the returned iterator and the memory afterwards
erase(m, position) ==
  [ret |-> m[position].next, mem |-> remove_self_from_list(m, position)]

\* for (i = begin(); i != end(); ++i) collect *i.  The loop is cut after more
\* steps than there are nodes, or when it would leave the nodes: ok is FALSE.
RECURSIVE Loop(_, _, _)
Loop(m, node, fuel) ==
  IF node = end THEN [ok |-> TRUE, items |-> <<>>]
  ELSE IF fuel = 0 \/ node \notin Nodes THEN [ok |-> FALSE, items |-> <<>>]
  ELSE LET rest == Loop(m, IterNext(m, node), fuel - 1)
       IN  [ok |-> rest.ok, items |-> <<IterDeref(node)>> \o rest.items]

Iterate(m) == Loop(m, begin(m), Cardinality(Nodes))

-----------------------------------------------------------------------------
(* Initial state: list() and value-initialised elements *)

InitMem ==
  [n \in Nodes |-> IF n = head_ THEN [next |-> head_, prev |-> head_]
                   ELSE [next |-> Null, prev |-> Null]]

NoTrav == [active |-> FALSE, orig |-> <<>>, visited |-> <<>>, erased |-> {}]

NoRun == [kind |-> "none", seq |-> <<>>]

NoOp == [op |-> "construct", arg |-> Null]

NoPc == [op |-> "none", step |-> 0]

NoInp == [obj |-> Null, off |-> 0]

Init ==
  /\ mem = InitMem
  /\ ref = <<>>
  /\ it = Null
  /\ trav = NoTrav
  /\ pushRun = NoRun
  /\ rotBase = InitMem
  /\ rotCount = 0
  /\ pre = InitMem
  /\ lastOp = NoOp
  /\ refB = <<>>
  /\ pc = NoPc
  /\ inp = NoInp
  /\ out = <<>>

\* bookkeeping common to the operations outside a run of rotate_left calls
Done(op, arg) ==
  /\ pre' = mem
  /\ lastOp' = [op |-> op, arg |-> arg]
  /\ rotBase' = InitMem
  /\ rotCount' = 0
  /\ UNCHANGED others

Idle == ~trav.active

PushFront(e) ==
  /\ Idle
  /\ e \notin Range(ref)
  /\ mem' = push_front(mem, e)
  /\ ref' = <<e>> \o ref
  /\ pushRun' = IF ref = <<>> THEN [kind |-> "front", seq |-> <<e>>]
                ELSE IF pushRun.kind = "front"
                     THEN [pushRun EXCEPT !.seq = Append(@, e)]
                     ELSE NoRun
  /\ Done("push_front", e)
  /\ UNCHANGED <<it, trav>>

PushBack(e) ==
  /\ Idle
  /\ e \notin Range(ref)
  /\ mem' = push_back(mem, e)
  /\ ref' = Append(ref, e)
  /\ pushRun' = IF ref = <<>> THEN [kind |-> "back", seq |-> <<e>>]
                ELSE IF pushRun.kind = "back"
                     THEN [pushRun EXCEPT !.seq = Append(@, e)]
                     ELSE NoRun
  /\ Done("push_back", e)
  /\ UNCHANGED <<it, trav>>

PopFront ==
  /\ Idle
  /\ ref # <<>>
  /\ mem' = pop_front(mem)
  /\ ref' = Tail(ref)
  /\ pushRun' = NoRun
  /\ Done("pop_front", Null)
  /\ UNCHANGED <<it, trav>>

PopBack ==
  /\ Idle
  /\ ref # <<>>
  /\ mem' = pop_back(mem)
  /\ ref' = Front(ref)
  /\ pushRun' = NoRun
  /\ Done("pop_back", Null)
  /\ UNCHANGED <<it, trav>>

RemoveIfExists(e) ==
  /\ Idle
  /\ mem' = remove_if_exists(mem, e)
  /\ ref' = Without(ref, e)
  /\ pushRun' = NoRun
  /\ Done("remove_if_exists", e)
  /\ UNCHANGED <<it, trav>>

RotateLeft ==
  /\ Idle
  /\ mem' = rotate_left(mem)
  /\ ref' = IF ref = <<>> THEN ref ELSE Append(Tail(ref), Head(ref))
  /\ pushRun' = NoRun
  /\ pre' = mem
  /\ lastOp' = [op |-> "rotate_left", arg |-> Null]
  /\ IF ref = <<>>
     THEN rotBase' = InitMem /\ rotCount' = 0
     ELSE IF rotCount = 0 \/ rotCount >= Len(ref)
          THEN rotBase' = mem /\ rotCount' = 1
          ELSE rotBase' = rotBase /\ rotCount' = rotCount + 1
  /\ UNCHANGED <<it, trav>>
  /\ UNCHANGED others

\* auto j = list.begin();
BeginLoop ==
  /\ Idle
  /\ it' = begin(mem)
  /\ trav' = [active |-> TRUE, orig |-> ref, visited |-> <<>>, erased |-> {}]
  /\ pushRun' = NoRun
  /\ Done("begin", Null)
  /\ UNCHANGED <<mem, ref>>

\* j != list.end(): ++j
Advance ==
  /\ trav.active
  /\ it # end
  /\ it' = IterNext(mem, it)
  /\ trav' = [trav EXCEPT !.visited = Append(@, IterDeref(it))]
  /\ Done("advance", IterDeref(it))
  /\ UNCHANGED <<mem, ref, pushRun>>

\* j != list.end(): j = list.erase(j)
EraseCurrent ==
  /\ trav.active
  /\ it # end
  /\ LET r == erase(mem, it)
     IN  /\ it' = r.ret
         /\ mem' = r.mem
  /\ ref' = Without(ref, IterDeref(it))
  /\ trav' = [trav EXCEPT !.visited = Append(@, IterDeref(it)),
                          !.erased = @ \cup {IterDeref(it)}]
  /\ Done("erase", IterDeref(it))
  /\ UNCHANGED pushRun

\* j == list.end(): the loop is left
EndLoop ==
  /\ trav.active
  /\ it = end
  /\ it' = Null
  /\ trav' = NoTrav
  /\ Done("end", Null)
  /\ UNCHANGED <<mem, ref, pushRun>>

Next ==
  \/ \E e \in Elems : PushFront(e)
  \/ \E e \in Elems : PushBack(e)
  \/ PopFront
  \/ PopBack
  \/ \E e \in Elems : RemoveIfExists(e)
  \/ RotateLeft
  \/ BeginLoop
  \/ Advance
  \/ EraseCurrent
  \/ EndLoop

Spec == Init /\ [][Next]_vars

\* pop_front() or pop_back() has been called on the empty list
Broken == lastOp.op \in {"pop_front on empty", "pop_back on empty"}

\* pop_front() on the empty list: nothing checks the precondition
PopFrontOnEmpty ==
  /\ Idle
  /\ ~Broken
  /\ empty(mem)
  /\ mem' = pop_front(mem)
  /\ pushRun' = NoRun
  /\ Done("pop_front on empty", Null)
  /\ UNCHANGED <<ref, it, trav>>

\* pop_back() on the empty list
PopBackOnEmpty ==
  /\ Idle
  /\ ~Broken
  /\ empty(mem)
  /\ mem' = pop_back(mem)
  /\ pushRun' = NoRun
  /\ Done("pop_back on empty", Null)
  /\ UNCHANGED <<ref, it, trav>>

\* the operations of the list, those on the empty list included; no call is
\* made on a list that a pop on the empty list has broken
NextMisuse ==
  \/ ~Broken /\ Next
  \/ PopFrontOnEmpty
  \/ PopBackOnEmpty

SpecMisuse == Init /\ [][NextMisuse]_vars

-----------------------------------------------------------------------------
(* Properties *)

\* the nodes the caller has linked, and the sentinel
LinkedNodes == {head_} \cup { get_node(e) : e \in Range(ref) }

NoDuplicates(s) == \A i, j \in 1..Len(s) : s[i] = s[j] => i = j

Detached == [next |-> Null, prev |-> Null]

\* C1: after any sequence of push_front, push_back, pop_front, pop_back,
\* remove_if_exists, rotate_left and erase that respects the preconditions,
\* every node n of the ring, the sentinel included, has n.next.prev == n and
\* n.prev.next == n.
C1_RingInverse ==
  \A n \in LinkedNodes :
    /\ mem[n].next \in Nodes
    /\ mem[n].prev \in Nodes
    /\ mem[mem[n].next].prev = n
    /\ mem[mem[n].prev].next = n

C1_Witness ==
  /\ lastOp.op = "erase"
  /\ Len(ref) >= 2
  /\ Len(trav.visited) >= 2

\* C2: front() and back() return the front and the back of the reference
\* double-ended sequence that was subjected to the same operations.
C2_FrontBackMatchDeque ==
  ref # <<>> =>
    /\ front(mem) = ref[1]
    /\ back(mem) = ref[Len(ref)]

C2_Witness ==
  /\ lastOp.op = "pop_back"
  /\ Len(ref) >= 2
  /\ front(mem) = ref[1]
  /\ back(mem) = ref[Len(ref)]

\* C3: following next from the sentinel visits every currently linked element
\* exactly once and returns to the sentinel after as many steps as there are
\* linked elements; no element that is not linked is reached, so the loop from
\* begin() to end() terminates.
C3_TraversalVisitsLinkedOnce ==
  LET t == Iterate(mem)
  IN  /\ t.ok
      /\ Len(t.items) = Len(ref)
      /\ NoDuplicates(t.items)
      /\ Range(t.items) = Range(ref)

C3_Witness ==
  /\ lastOp.op = "remove_if_exists"
  /\ mem # pre
  /\ Len(ref) >= 2
  /\ Len(Iterate(mem).items) = Len(ref)

\* C4: empty() is true iff no element is currently linked.
C4_EmptyIffNoneLinked == empty(mem) <=> (ref = <<>>)

C4_Witness ==
  /\ lastOp.op = "pop_front"
  /\ ref = <<>>
  /\ empty(mem)
  /\ ~empty(pre)

\* C5: is_singular() is true iff exactly one element is currently linked.
C5_SingularIffOneLinked == is_singular(mem) <=> (Len(ref) = 1)

C5_Witness ==
  /\ lastOp.op = "pop_back"
  /\ Len(ref) = 1
  /\ is_singular(mem)
  /\ ~is_singular(pre)

\* C6: the loop from begin() to end() after N push_back calls on an empty list
\* yields the N elements in insertion order, and after N push_front calls on
\* an empty list yields them in reverse insertion order.
C6_IterationOrderAfterPushes ==
  /\ pushRun.kind = "back" =>
       Iterate(mem) = [ok |-> TRUE, items |-> pushRun.seq]
  /\ pushRun.kind = "front" =>
       Iterate(mem) = [ok |-> TRUE, items |-> Reverse(pushRun.seq)]

C6_Witness ==
  /\ pushRun.kind = "front"
  /\ Len(pushRun.seq) >= 3
  /\ Iterate(mem).items = Reverse(pushRun.seq)

\* C7: erase(it) unlinks exactly the element at it and returns an iterator to
\* the element that originally followed it (end() after the last); a loop
\* from begin() that at each position erases and continues from the returned
\* iterator, or advances with ++, visits the elements of the original list in
\* order, each once, is at end() exactly after the last of them, and leaves the
\* elements it did not erase linked in their original order.
C7_EraseDuringTraversal ==
  trav.active =>
    LET k == Len(trav.visited)
        kept == SelectSeq(trav.orig, LAMBDA x : x \notin trav.erased)
    IN  /\ k <= Len(trav.orig)
        /\ trav.visited = SubSeq(trav.orig, 1, k)
        /\ it = IF k < Len(trav.orig) THEN get_node(trav.orig[k + 1]) ELSE end
        /\ Iterate(mem) = [ok |-> TRUE, items |-> kept]
        /\ \A e \in trav.erased : mem[get_node(e)] = Detached
        /\ lastOp.op = "erase" =>
             \A n \in Nodes \ {get_node(lastOp.arg)} :
               /\ mem[n].next # pre[n].next => pre[n].next = get_node(lastOp.arg)
               /\ mem[n].prev # pre[n].prev => pre[n].prev = get_node(lastOp.arg)

C7_Witness ==
  /\ trav.active
  /\ it = end
  /\ Len(trav.orig) >= 3
  /\ trav.visited = trav.orig
  /\ trav.erased # {}
  /\ Cardinality(trav.erased) < Len(trav.orig)
  /\ lastOp.op = "erase"

\* C8: rotate_left() on [e1, ..., en], n >= 1, leaves [e2, ..., en, e1]: the
\* prior front is the back, for n >= 2 the prior second element is the front;
\* on an empty list it changes no pointer.
C8_RotateLeft ==
  lastOp.op = "rotate_left" =>
    LET a == Iterate(pre)
        b == Iterate(mem)
    IN  /\ a.ok
        /\ b.ok
        /\ IF empty(pre)
           THEN mem = pre
           ELSE /\ b.items = Append(Tail(a.items), a.items[1])
                /\ back(mem) = front(pre)
                /\ Len(a.items) >= 2 => front(mem) = a.items[2]

C8_Witness ==
  /\ lastOp.op = "rotate_left"
  /\ Len(Iterate(pre).items) >= 3
  /\ back(mem) = front(pre)

\* C9: rotate_left() applied N times to a list of N >= 1 elements restores the
\* order of the elements and every next/prev pointer of the ring.
C9_RotateNTimesRestores ==
  (rotCount >= 1 /\ rotCount = Len(ref)) =>
    /\ mem = rotBase
    /\ Iterate(mem) = Iterate(rotBase)

C9_Witness ==
  /\ rotCount = Len(ref)
  /\ Len(ref) >= 3
  /\ mem = rotBase
  /\ mem # pre

\* the node x, with former neighbours p and nx, has been unlinked from pre:
\* x is detached, p and nx point at each other, nothing else has changed
Unlinked(x) ==
  LET p == pre[x].prev
      nx == pre[x].next
  IN  /\ mem[x] = Detached
      /\ mem[p].next = nx
      /\ mem[nx].prev = p
      /\ \A n \in Nodes \ {x} :
           /\ n # p => mem[n].next = pre[n].next
           /\ n # nx => mem[n].prev = pre[n].prev

\* C10: pop_front() (pop_back()) on a non-empty list unlinks exactly the
\* element next to the sentinel on the next (prev) side, links its two former
\* neighbours to each other and leaves it with next == null and prev == null.
C10_PopUnlinksAdjacent ==
  /\ lastOp.op = "pop_front" =>
       /\ pre[pre[head_].next].prev = head_
       /\ Unlinked(pre[head_].next)
  /\ lastOp.op = "pop_back" =>
       /\ pre[pre[head_].prev].next = head_
       /\ Unlinked(pre[head_].prev)

C10_Witness ==
  /\ lastOp.op = "pop_back"
  /\ Len(ref) >= 2
  /\ mem[pre[head_].prev] = Detached
  /\ mem[head_].prev = pre[pre[head_].prev].prev

\* C11: remove_if_exists(item) on an item whose node is not a list member (next
\* and prev null) changes no pointer of any node or sentinel; on a linked item
\* it unlinks the item and nulls its links, so that an immediately repeated
\* remove_if_exists(item) is a no-op.
C11_RemoveIfExists ==
  lastOp.op = "remove_if_exists" =>
    LET x == get_node(lastOp.arg)
    IN  /\ pre[x] = Detached => mem = pre
        /\ pre[x] # Detached =>
             /\ Unlinked(x)
             /\ lastOp.arg \notin Range(Iterate(mem).items)
        /\ remove_if_exists(mem, lastOp.arg) = mem

C11_Witness ==
  /\ lastOp.op = "remove_if_exists"
  /\ pre[get_node(lastOp.arg)] # Detached
  /\ mem[get_node(lastOp.arg)] = Detached
  /\ Len(ref) >= 2
  /\ pre[get_node(lastOp.arg)].prev # head_
  /\ pre[get_node(lastOp.arg)].next # head_

\* C12: for every element node that starts with null links, have_container()
\* is true iff the node is currently linked into the list's ring, and a node
\* that is not linked has both next and prev null.
C12_DetachedUnambiguous ==
  \A e \in Elems :
    /\ have_container(mem, get_node(e)) <=> e \in Range(ref)
    /\ have_container(mem, get_node(e)) <=> e \in Range(Iterate(mem).items)
    /\ e \notin Range(ref) => mem[get_node(e)] = Detached

C12_Witness ==
  /\ lastOp.op = "erase"
  /\ Len(ref) >= 1
  /\ ~have_container(mem, get_node(lastOp.arg))
  /\ have_container(pre, get_node(lastOp.arg))
  /\ \E e \in Elems : have_container(mem, get_node(e))

-----------------------------------------------------------------------------
(* Several list objects and both node fields of list_test_struct.           *)
(* A list object is its &head_ and the offset of its node_field.            *)

OffsetNode2 == 24

ListBAddr == 440

ListA == [head |-> ListAddr, off |-> OffsetNode1]

\* a second list<list_test_struct, &list_test_struct::node1>
ListB == [head |-> ListBAddr, off |-> OffsetNode1]

\* a list<list_test_struct, &list_test_struct::node2>
ListC == [head |-> ListBAddr, off |-> OffsetNode2]

AllNodes ==
  {ListAddr, ListBAddr} \cup { e + OffsetNode1 : e \in Elems }
                        \cup { e + OffsetNode2 : e \in Elems }

\* get_node / get_owner of the instantiation with this.off
\* variant: the node is always taken from the first field
node_of_FirstField(this, item) == item + OffsetNode1

node_of(this, item) == item + this.off

owner_in(this, member) == owner_of(member, offset_of_member(this.off))

list_front(m, this) == owner_in(this, m[this.head].next)

list_back(m, this) == owner_in(this, m[this.head].prev)

\* variant: an already linked node is unlinked before it is inserted
list_push_front_Unlinking(m, this, item) ==
  LET n == node_of(this, item)
      m0 == IF have_container(m, n) THEN remove_self_from_list(m, n) ELSE m
  IN  list_add(m0, n, this.head)

list_push_front(m, this, item) == list_add(m, node_of(this, item), this.head)

list_push_back(m, this, item) ==
  list_add_tail(m, node_of(this, item), this.head)

\* variant: only the first or the last element of the list the call is made
\* on is unlinked
list_remove_if_exists_OwnEnds(m, this, item) ==
  IF /\ have_container(m, node_of(this, item))
     /\ node_of(this, item) \in {m[this.head].next, m[this.head].prev}
  THEN remove_self_from_list(m, node_of(this, item))
  ELSE m

list_remove_if_exists(m, this, item) ==
  IF have_container(m, node_of(this, item))
  THEN remove_self_from_list(m, node_of(this, item))
  ELSE m

list_pop_front(m, this) ==
  remove_self_from_list(m, node_of(this, list_front(m, this)))

list_pop_back(m, this) ==
  remove_self_from_list(m, node_of(this, list_back(m, this)))

list_rotate_left_of(m, this) == list_rotate_left(m, this.head)

\* erase(position) of the list object this
list_erase(m, this, position) ==
  [ret |-> m[position].next, mem |-> remove_self_from_list(m, position)]

\* the loop from begin() to end() of the list object this
RECURSIVE LoopOn(_, _, _, _)
LoopOn(m, this, node, fuel) ==
  IF node = this.head THEN [ok |-> TRUE, items |-> <<>>]
  ELSE IF fuel = 0 \/ node \notin AllNodes THEN [ok |-> FALSE, items |-> <<>>]
  ELSE LET rest == LoopOn(m, this, m[node].next, fuel - 1)
       IN  [ok |-> rest.ok, items |-> <<owner_in(this, node)>> \o rest.items]

IterateOn(m, this) ==
  LoopOn(m, this, m[this.head].next, Cardinality(AllNodes))

InitMemAll ==
  [n \in AllNodes |-> IF n \in {ListAddr, ListBAddr}
                      THEN [next |-> n, prev |-> n]
                      ELSE [next |-> Null, prev |-> Null]]

InitAll ==
  /\ mem = InitMemAll
  /\ ref = <<>>
  /\ it = Null
  /\ trav = NoTrav
  /\ pushRun = NoRun
  /\ rotBase = InitMem
  /\ rotCount = 0
  /\ pre = InitMemAll
  /\ lastOp = NoOp
  /\ refB = <<>>
  /\ pc = NoPc
  /\ inp = NoInp
  /\ out = <<>>

\* what the operations on two list objects leave alone
single == <<it, trav, pushRun, rotBase, rotCount, pc, inp, out>>

\* the ring of this holds exactly members: prev inverts next on the sentinel and
\* on every member, and the loop yields each member once and ends
WellFormed(m, this, members) ==
  /\ \A n \in {this.head} \cup { node_of(this, e) : e \in Range(members) } :
       /\ m[n].next \in AllNodes
       /\ m[n].prev \in AllNodes
       /\ m[m[n].next].prev = n
       /\ m[m[n].prev].next = n
  /\ LET t == IterateOn(m, this)
     IN  /\ t.ok
         /\ Len(t.items) = Len(members)
         /\ Range(t.items) = Range(members)

-----------------------------------------------------------------------------
(* Two lists through node1, and a push of an element that is already linked *)

RefOf(this) == IF this = ListA THEN ref ELSE refB

SetRef(this, s) ==
  IF this = ListA THEN ref' = s /\ refB' = refB ELSE refB' = s /\ ref' = ref

DoublePushed == lastOp.op \in {"double_push_front", "double_push_back"}

\* the list an element is a member of
HomeOf(e) == IF e \in Range(ref) THEN ListA ELSE ListB

DPushFront(this, e) ==
  /\ ~DoublePushed
  /\ e \notin Range(ref) \cup Range(refB)
  /\ mem' = list_push_front(mem, this, e)
  /\ SetRef(this, <<e>> \o RefOf(this))
  /\ pre' = mem
  /\ lastOp' = [op |-> "push_front", arg |-> e]
  /\ UNCHANGED single

DPushBack(this, e) ==
  /\ ~DoublePushed
  /\ e \notin Range(ref) \cup Range(refB)
  /\ mem' = list_push_back(mem, this, e)
  /\ SetRef(this, Append(RefOf(this), e))
  /\ pre' = mem
  /\ lastOp' = [op |-> "push_back", arg |-> e]
  /\ UNCHANGED single

DPopFront(this) ==
  /\ ~DoublePushed
  /\ RefOf(this) # <<>>
  /\ mem' = list_pop_front(mem, this)
  /\ SetRef(this, Tail(RefOf(this)))
  /\ pre' = mem
  /\ lastOp' = [op |-> "pop_front", arg |-> Null]
  /\ UNCHANGED single

\* push_front(item) with item already linked: the call is made all the same
DoublePushFront(this, e) ==
  /\ ~DoublePushed
  /\ e \in Range(ref) \cup Range(refB)
  /\ mem' = list_push_front(mem, this, e)
  /\ pre' = mem
  /\ lastOp' = [op |-> "double_push_front", arg |-> e]
  /\ UNCHANGED <<ref, refB>>
  /\ UNCHANGED single

\* push_back(item) with item already linked
DoublePushBack(this, e) ==
  /\ ~DoublePushed
  /\ e \in Range(ref) \cup Range(refB)
  /\ mem' = list_push_back(mem, this, e)
  /\ pre' = mem
  /\ lastOp' = [op |-> "double_push_back", arg |-> e]
  /\ UNCHANGED <<ref, refB>>
  /\ UNCHANGED single

\* this.remove_if_exists(e), whichever list e is on, if any
DRemoveIfExists(this, e) ==
  /\ ~DoublePushed
  /\ mem' = list_remove_if_exists(mem, this, e)
  /\ ref' = Without(ref, e)
  /\ refB' = Without(refB, e)
  /\ pre' = mem
  /\ lastOp' = [op |-> "remove_if_exists", arg |-> e, on |-> this]
  /\ UNCHANGED single

NextDouble ==
  \/ \E this \in {ListA, ListB}, e \in Elems : DPushFront(this, e)
  \/ \E this \in {ListA, ListB}, e \in Elems : DPushBack(this, e)
  \/ \E this \in {ListA, ListB} : DPopFront(this)
  \/ \E this \in {ListA, ListB}, e \in Elems : DoublePushFront(this, e)
  \/ \E this \in {ListA, ListB}, e \in Elems : DoublePushBack(this, e)
  \/ \E this \in {ListA, ListB}, e \in Elems : DRemoveIfExists(this, e)

SpecDouble == InitAll /\ [][NextDouble]_vars

\* C13: push_front or push_back of an element whose node is already linked (in
\* the same list or in another list through the same field) is made without
\* unlinking the node: its former neighbours still point at it, and the list
\* it was a member of no longer satisfies the ring invariant.
C13_DoubleInsertCorrupts ==
  DoublePushed =>
    LET x == get_node(lastOp.arg)
    IN  /\ mem[pre[x].prev].next = x
        /\ mem[pre[x].next].prev = x
        /\ WellFormed(pre, HomeOf(lastOp.arg), RefOf(HomeOf(lastOp.arg)))
        /\ ~WellFormed(mem, HomeOf(lastOp.arg), RefOf(HomeOf(lastOp.arg)))

C13_Witness ==
  /\ lastOp.op = "double_push_back"
  /\ lastOp.arg \in Range(refB)
  /\ Len(refB) >= 2
  /\ mem[mem[ListA.head].prev].next = ListA.head
  /\ mem[ListA.head].prev = get_node(lastOp.arg)
  /\ ~WellFormed(mem, ListB, refB)

-----------------------------------------------------------------------------
(* One list through node1 and one through node2 of the same elements *)

NumFieldElems == 3

FieldElems == { ObjAddr(i) : i \in 1..NumFieldElems }

\* what the operations on the two fields leave alone
fieldsFrame == <<it, trav, pushRun, rotBase, rotCount, pc, inp>>

FDone(this, op, arg, ret) ==
  /\ pre' = mem
  /\ lastOp' = [op |-> op, arg |-> arg, on |-> this]
  /\ out' = ret
  /\ UNCHANGED fieldsFrame

FPushFront(this, e) ==
  /\ e \notin Range(RefOf(this))
  /\ mem' = list_push_front(mem, this, e)
  /\ SetRef(this, <<e>> \o RefOf(this))
  /\ FDone(this, "push_front", e, <<>>)

FPushBack(this, e) ==
  /\ e \notin Range(RefOf(this))
  /\ mem' = list_push_back(mem, this, e)
  /\ SetRef(this, Append(RefOf(this), e))
  /\ FDone(this, "push_back", e, <<>>)

FPopFront(this) ==
  /\ RefOf(this) # <<>>
  /\ mem' = list_pop_front(mem, this)
  /\ SetRef(this, Tail(RefOf(this)))
  /\ FDone(this, "pop_front", Null, <<>>)

FPopBack(this) ==
  /\ RefOf(this) # <<>>
  /\ mem' = list_pop_back(mem, this)
  /\ SetRef(this, Front(RefOf(this)))
  /\ FDone(this, "pop_back", Null, <<>>)

FRemoveIfExists(this, e) ==
  /\ mem' = list_remove_if_exists(mem, this, e)
  /\ SetRef(this, Without(RefOf(this), e))
  /\ FDone(this, "remove_if_exists", e, <<>>)

FRotateLeft(this) ==
  /\ mem' = list_rotate_left_of(mem, this)
  /\ SetRef(this, IF RefOf(this) = <<>> THEN <<>>
                  ELSE Append(Tail(RefOf(this)), RefOf(this)[1]))
  /\ FDone(this, "rotate_left", Null, <<>>)

\* erase at the position of a linked element
FErase(this, e) ==
  /\ e \in Range(RefOf(this))
  /\ LET r == list_erase(mem, this, node_of(this, e))
     IN  /\ mem' = r.mem
         /\ FDone(this, "erase", e, <<r.ret>>)
  /\ SetRef(this, Without(RefOf(this), e))

NextFields ==
  \/ \E e \in FieldElems : FPushFront(ListA, e)
  \/ \E e \in FieldElems : FPushBack(ListA, e)
  \/ FPopFront(ListA)
  \/ FPopBack(ListA)
  \/ \E e \in FieldElems : FRemoveIfExists(ListA, e)
  \/ FRotateLeft(ListA)
  \/ \E e \in FieldElems : FErase(ListA, e)
  \/ \E e \in FieldElems : FPushBack(ListC, e)
  \/ FPopFront(ListC)

SpecFields == InitAll /\ [][NextFields]_vars

\* C14: an element can be a member of list A through node1 and of another list
\* through node2 at the same time, and every operation on list A (push, pop,
\* remove_if_exists, rotate_left, erase) leaves node2 of every element and the
\* other list's sentinel, and hence its contents and order, unchanged.
C14_OtherFieldUntouched ==
  /\ WellFormed(mem, ListA, ref)
  /\ WellFormed(mem, ListC, refB)
  /\ IterateOn(mem, ListA).items = ref
  /\ IterateOn(mem, ListC).items = refB
  /\ (lastOp.op # "construct" /\ lastOp.on = ListA) =>
       /\ \A e \in Elems : mem[e + OffsetNode2] = pre[e + OffsetNode2]
       /\ mem[ListC.head] = pre[ListC.head]
       /\ IterateOn(mem, ListC) = IterateOn(pre, ListC)

C14_Witness ==
  /\ lastOp.op = "rotate_left"
  /\ lastOp.on = ListA
  /\ Len(ref) >= 2
  /\ Len(refB) >= 2
  /\ Cardinality(Range(ref) \cap Range(refB)) >= 2
  /\ mem # pre

-----------------------------------------------------------------------------
(* Owner resolution on its own: an object at any address, either node field *)

\* the addresses at which a list_test_struct fits
ObjAddrs == 1..(PtrMod - SizeofT)

Members == {OffsetNode1, OffsetNode2}

ownerFrame ==
  <<mem, ref, it, trav, pushRun, rotBase, rotCount, pre, lastOp, refB, pc>>

InitOwner ==
  /\ mem = InitMem
  /\ ref = <<>>
  /\ it = Null
  /\ trav = NoTrav
  /\ pushRun = NoRun
  /\ rotBase = InitMem
  /\ rotCount = 0
  /\ pre = InitMem
  /\ lastOp = NoOp
  /\ refB = <<>>
  /\ pc = NoPc
  /\ inp \in [obj : ObjAddrs, off : Members]
  /\ out = <<>>

\* &(o.f)
TakeField ==
  /\ out = <<>>
  /\ out' = <<field_of(inp.obj, inp.off)>>
  /\ UNCHANGED inp
  /\ UNCHANGED ownerFrame

\* owner_of(&(o.f), &T::f)
ResolveOwner ==
  /\ Len(out) = 1
  /\ out' = Append(out, owner_of(out[1], offset_of_member(inp.off)))
  /\ UNCHANGED inp
  /\ UNCHANGED ownerFrame

NextOwner == TakeField \/ ResolveOwner

SpecOwner == InitOwner /\ [][NextOwner]_vars

\* C15: for every object o placed at any address and every embedded field f at
\* its fixed offset, owner_of(&(o.f), selector) == &o, with offset_of(selector)
\* the same for every instance; so get_owner(get_node(item)) == item for every
\* item of a list.
C15_OwnerRoundTrip ==
  /\ offset_of_member(inp.off) = inp.off
  /\ Len(out) = 2 => out[2] = inp.obj
  /\ \A e \in Elems :
       /\ get_owner(get_node(e)) = e
       /\ owner_in(ListC, node_of(ListC, e)) = e

C15_Witness ==
  /\ Len(out) = 2
  /\ out[2] = inp.obj
  /\ inp.obj < PtrMod \div 2
  /\ out[1] >= PtrMod \div 2
  /\ inp.off = OffsetNode2

-----------------------------------------------------------------------------
(* namespace list (src/include/list/list.h): the functions on list_node     *)
(* rings.  Where a name is also a name of intrusive_list::internal, the one *)
(* of namespace list carries the prefix L_.                                 *)

INIT_LIST_HEAD(m, list) ==
  LET m1 == SetNext(m, list, list)
      m2 == SetPrev(m1, list, list)
  IN  m2

\* __list_add_valid returns true without CONFIG_DEBUG_LIST
__list_add(m, new, prev, next) ==
  LET m1 == SetPrev(m, next, new)
      m2 == SetNext(m1, new, next)
      m3 == SetPrev(m2, new, prev)
      m4 == SetNext(m3, prev, new)
  IN  m4

L_list_add(m, new, head) == __list_add(m, new, head, m[head].next)

L_list_add_tail(m, new, head) == __list_add(m, new, m[head].prev, head)

__list_del(m, prev, next) ==
  LET m1 == SetPrev(m, next, prev)
      m2 == SetNext(m1, prev, next)
  IN  m2

\* __list_del_entry_valid returns true without CONFIG_DEBUG_LIST
__list_del_entry(m, entry) == __list_del(m, m[entry].prev, m[entry].next)

list_del(m, entry) ==
  LET m1 == __list_del_entry(m, entry)
      m2 == SetNext(m1, entry, Null)
      m3 == SetPrev(m2, entry, Null)
  IN  m3

list_replace(m, old, new) ==
  LET m1 == SetNext(m, new, m[old].next)
      m2 == SetPrev(m1, m1[new].next, new)
      m3 == SetPrev(m2, new, m2[old].prev)
      m4 == SetNext(m3, m3[new].prev, new)
  IN  m4

\* variant: old is left as list_replace leaves it
list_replace_init_NoInit(m, old, new) == list_replace(m, old, new)

list_replace_init(m, old, new) == INIT_LIST_HEAD(list_replace(m, old, new), old)

\* variant: pos is not moved off entry1 when the entries are adjacent
list_swap_NoAdjacentFix(m, entry1, entry2) ==
  LET pos == m[entry2].prev
      m1 == list_del(m, entry2)
      m2 == list_replace(m1, entry1, entry2)
  IN  L_list_add(m2, entry1, pos)

\* variant: entry1 is always added right after entry2
list_swap_AfterEntry2(m, entry1, entry2) ==
  LET m1 == list_del(m, entry2)
      m2 == list_replace(m1, entry1, entry2)
  IN  L_list_add(m2, entry1, entry2)

list_swap(m, entry1, entry2) ==
  LET pos == m[entry2].prev
      m1 == list_del(m, entry2)
      m2 == list_replace(m1, entry1, entry2)
      pos2 == IF pos = entry1 THEN entry2 ELSE pos
  IN  L_list_add(m2, entry1, pos2)

\* variant: the run is linked in after head, not before it
list_bulk_move_tail_AfterHead(m, head, first, last) ==
  LET m1 == SetNext(m, m[first].prev, m[last].next)
      m2 == SetPrev(m1, m1[last].next, m1[first].prev)
      m3 == SetPrev(m2, m2[head].next, last)
      m4 == SetNext(m3, last, m3[head].next)
      m5 == SetPrev(m4, first, head)
      m6 == SetNext(m5, head, first)
  IN  m6

L_list_move_tail(m, list, head) ==
  L_list_add_tail(__list_del_entry(m, list), list, head)

\* variant: the entry, not the head, is the node that is moved
list_rotate_to_front_MovesEntry(m, list, head) == L_list_move_tail(m, list, head)

\* list_rotate_to_front(list, head): the head is moved to right before list
list_rotate_to_front(m, list, head) == L_list_move_tail(m, head, list)

list_bulk_move_tail(m, head, first, last) ==
  LET m1 == SetNext(m, m[first].prev, m[last].next)
      m2 == SetPrev(m1, m1[last].next, m1[first].prev)
      m3 == SetNext(m2, m2[head].prev, first)
      m4 == SetPrev(m3, first, m3[head].prev)
      m5 == SetNext(m4, last, head)
      m6 == SetPrev(m5, head, last)
  IN  m6

L_list_empty(m, head) == m[head].next = head

L_list_is_singular(m, head) ==
  ~L_list_empty(m, head) /\ m[head].next = m[head].prev

\* variant: the assignment list->prev = entry is made the wrong way round
__list_cut_position_EntryPrev(m, list, head, entry) ==
  LET new_first == m[entry].next
      m1 == SetNext(m, list, m[head].next)
      m2 == SetPrev(m1, m1[list].next, list)
      m3 == SetPrev(m2, entry, list)
      m4 == SetNext(m3, entry, list)
      m5 == SetNext(m4, head, new_first)
      m6 == SetPrev(m5, new_first, head)
  IN  m6

__list_cut_position(m, list, head, entry) ==
  LET new_first == m[entry].next
      m1 == SetNext(m, list, m[head].next)
      m2 == SetPrev(m1, m1[list].next, list)
      m3 == SetPrev(m2, list, entry)
      m4 == SetNext(m3, entry, list)
      m5 == SetNext(m4, head, new_first)
      m6 == SetPrev(m5, new_first, head)
  IN  m6

list_cut_position(m, list, head, entry) ==
  IF L_list_empty(m, head) THEN m
  ELSE IF L_list_is_singular(m, head)
          /\ (m[head].next # entry /\ head # entry) THEN m
  ELSE IF entry = head THEN INIT_LIST_HEAD(m, list)
  ELSE __list_cut_position(m, list, head, entry)

\* variant: returns without reinitialising list when nothing is cut
list_cut_before_NoInit(m, list, head, entry) ==
  IF m[head].next = entry THEN m
  ELSE LET m1 == SetNext(m, list, m[head].next)
           m2 == SetPrev(m1, m1[list].next, list)
           m3 == SetPrev(m2, list, m2[entry].prev)
           m4 == SetNext(m3, m3[list].prev, list)
           m5 == SetNext(m4, head, entry)
           m6 == SetPrev(m5, entry, head)
       IN  m6

list_cut_before(m, list, head, entry) ==
  IF m[head].next = entry THEN INIT_LIST_HEAD(m, list)
  ELSE LET m1 == SetNext(m, list, m[head].next)
           m2 == SetPrev(m1, m1[list].next, list)
           m3 == SetPrev(m2, list, m2[entry].prev)
           m4 == SetNext(m3, m3[list].prev, list)
           m5 == SetNext(m4, head, entry)
           m6 == SetPrev(m5, entry, head)
       IN  m6

\* variant: the first entry, not the last, is linked to next
__list_splice_FirstForLast(m, list, prev, next) ==
  LET first == m[list].next
      m1 == SetPrev(m, first, prev)
      m2 == SetNext(m1, prev, first)
      m3 == SetNext(m2, first, next)
      m4 == SetPrev(m3, next, first)
  IN  m4

__list_splice(m, list, prev, next) ==
  LET first == m[list].next
      last == m[list].prev
      m1 == SetPrev(m, first, prev)
      m2 == SetNext(m1, prev, first)
      m3 == SetNext(m2, last, next)
      m4 == SetPrev(m3, next, last)
  IN  m4

list_splice(m, list, head) ==
  IF ~L_list_empty(m, list) THEN __list_splice(m, list, head, m[head].next)
  ELSE m

list_splice_tail(m, list, head) ==
  IF ~L_list_empty(m, list) THEN __list_splice(m, list, m[head].prev, head)
  ELSE m

\* variant: the emptied list is not reinitialised
list_splice_init_NoInit(m, list, head) ==
  IF ~L_list_empty(m, list) THEN __list_splice(m, list, head, m[head].next)
  ELSE m

list_splice_init(m, list, head) ==
  IF ~L_list_empty(m, list)
  THEN INIT_LIST_HEAD(__list_splice(m, list, head, m[head].next), list)
  ELSE m

list_splice_tail_init(m, list, head) ==
  IF ~L_list_empty(m, list)
  THEN INIT_LIST_HEAD(__list_splice(m, list, m[head].prev, head), list)
  ELSE m

-----------------------------------------------------------------------------
(* Two rings of namespace list, with heads at ListAddr and ListBAddr, and   *)
(* the node1 field of the elements as entries                               *)

TwoHeads == {ListA, ListB}

\* the entry of element e
Entry(e) == e + OffsetNode1

\* the entry at index k of a ring holding s, the head itself past either end
EntryAt(this, s, k) ==
  IF k \in 1..Len(s) THEN Entry(s[k]) ELSE this.head

\* s with the elements at indices i and j exchanged for x and y
Exchange(s, x, y) ==
  [k \in 1..Len(s) |-> IF s[k] = x THEN y ELSE IF s[k] = y THEN x ELSE s[k]]

\* list_splice / list_splice_tail have left the head of the source behind
Stale == lastOp.op \in {"list_splice", "list_splice_tail"}

BDone(op, list, head, run) ==
  /\ pre' = mem
  /\ lastOp' = [op |-> op, arg |-> [list |-> list, head |-> head, run |-> run]]
  /\ UNCHANGED single

\* both references, given the new contents of this and of that
SetRefs(this, s, that, t) ==
  IF this = ListA THEN ref' = s /\ refB' = t ELSE refB' = s /\ ref' = t

BAddTail(head, e) ==
  /\ ~Stale
  /\ e \notin Range(ref) \cup Range(refB)
  /\ mem' = L_list_add_tail(mem, Entry(e), head.head)
  /\ SetRef(head, Append(RefOf(head), e))
  /\ BDone("list_add_tail", head, head, <<e>>)

BSpliceInit(list, head) ==
  /\ ~Stale
  /\ list # head
  /\ mem' = list_splice_init(mem, list.head, head.head)
  /\ SetRefs(head, RefOf(list) \o RefOf(head), list, <<>>)
  /\ BDone("list_splice_init", list, head, RefOf(list))

BSpliceTailInit(list, head) ==
  /\ ~Stale
  /\ list # head
  /\ mem' = list_splice_tail_init(mem, list.head, head.head)
  /\ SetRefs(head, RefOf(head) \o RefOf(list), list, <<>>)
  /\ BDone("list_splice_tail_init", list, head, RefOf(list))

\* entry is the k-th entry of head, or head itself for k = 0; list is empty
BCutPosition(list, head, k) ==
  /\ ~Stale
  /\ list # head
  /\ RefOf(list) = <<>>
  /\ k \in 0..Len(RefOf(head))
  /\ mem' = list_cut_position(mem, list.head, head.head,
                              EntryAt(head, RefOf(head), k))
  /\ SetRefs(head, SubSeq(RefOf(head), k + 1, Len(RefOf(head))),
             list, SubSeq(RefOf(head), 1, k))
  /\ BDone("list_cut_position", list, head, SubSeq(RefOf(head), 1, k))

\* entry is the k-th entry of head, or head itself for k = Len + 1; list is empty
BCutBefore(list, head, k) ==
  /\ ~Stale
  /\ list # head
  /\ RefOf(list) = <<>>
  /\ k \in 1..(Len(RefOf(head)) + 1)
  /\ mem' = list_cut_before(mem, list.head, head.head,
                            EntryAt(head, RefOf(head), k))
  /\ SetRefs(head, SubSeq(RefOf(head), k, Len(RefOf(head))),
             list, SubSeq(RefOf(head), 1, k - 1))
  /\ BDone("list_cut_before", list, head, SubSeq(RefOf(head), 1, k - 1))

\* first and last are the i-th and the j-th entry of head, i <= j
BBulkMoveTail(head, i, j) ==
  /\ ~Stale
  /\ i \in 1..Len(RefOf(head))
  /\ j \in i..Len(RefOf(head))
  /\ mem' = list_bulk_move_tail(mem, head.head, Entry(RefOf(head)[i]),
                                Entry(RefOf(head)[j]))
  /\ SetRef(head, SubSeq(RefOf(head), 1, i - 1)
                  \o SubSeq(RefOf(head), j + 1, Len(RefOf(head)))
                  \o SubSeq(RefOf(head), i, j))
  /\ BDone("list_bulk_move_tail", head, head, SubSeq(RefOf(head), i, j))

BSwap(e1, e2) ==
  /\ ~Stale
  /\ e1 # e2
  /\ {e1, e2} \subseteq Range(ref) \cup Range(refB)
  /\ mem' = list_swap(mem, Entry(e1), Entry(e2))
  /\ ref' = Exchange(ref, e1, e2)
  /\ refB' = Exchange(refB, e1, e2)
  /\ BDone("list_swap", HomeOf(e1), HomeOf(e2), <<e1, e2>>)

\* the variants that do not reinitialise list
BSplice(list, head) ==
  /\ ~Stale
  /\ list # head
  /\ mem' = list_splice(mem, list.head, head.head)
  /\ SetRefs(head, RefOf(list) \o RefOf(head), list, <<>>)
  /\ BDone("list_splice", list, head, RefOf(list))

BSpliceTail(list, head) ==
  /\ ~Stale
  /\ list # head
  /\ mem' = list_splice_tail(mem, list.head, head.head)
  /\ SetRefs(head, RefOf(head) \o RefOf(list), list, <<>>)
  /\ BDone("list_splice_tail", list, head, RefOf(list))

\* the caller reinitialises the head that list_splice left behind
BReinit ==
  /\ Stale
  /\ mem' = INIT_LIST_HEAD(mem, lastOp.arg.list.head)
  /\ UNCHANGED <<ref, refB>>
  /\ BDone("INIT_LIST_HEAD", lastOp.arg.list, lastOp.arg.list, <<>>)

\* list_cut_position onto a list that holds entries the caller gives up:
\* entry is the k-th entry of head, or head itself for k = 0.  With an empty
\* head the function returns at once and list keeps what it held.
BCutPositionOver(list, head, k) ==
  /\ ~Stale
  /\ list # head
  /\ RefOf(list) # <<>>
  /\ k \in 0..Len(RefOf(head))
  /\ mem' = list_cut_position(mem, list.head, head.head,
                              EntryAt(head, RefOf(head), k))
  /\ IF RefOf(head) = <<>> THEN UNCHANGED <<ref, refB>>
     ELSE SetRefs(head, SubSeq(RefOf(head), k + 1, Len(RefOf(head))),
                  list, SubSeq(RefOf(head), 1, k))
  /\ BDone("list_cut_position_over", list, head, SubSeq(RefOf(head), 1, k))

\* list_cut_before onto a list that holds entries the caller gives up: entry
\* is the k-th entry of head, or head itself for k = Len + 1
BCutBeforeOver(list, head, k) ==
  /\ ~Stale
  /\ list # head
  /\ RefOf(list) # <<>>
  /\ k \in 1..(Len(RefOf(head)) + 1)
  /\ mem' = list_cut_before(mem, list.head, head.head,
                            EntryAt(head, RefOf(head), k))
  /\ SetRefs(head, SubSeq(RefOf(head), k, Len(RefOf(head))),
             list, SubSeq(RefOf(head), 1, k - 1))
  /\ BDone("list_cut_before_over", list, head, SubSeq(RefOf(head), 1, k - 1))

NextBulk ==
  \/ \E h \in TwoHeads, e \in Elems : BAddTail(h, e)
  \/ \E l, h \in TwoHeads : BSpliceInit(l, h)
  \/ \E l, h \in TwoHeads : BSpliceTailInit(l, h)
  \/ \E l, h \in TwoHeads, k \in 0..NumElems : BCutPosition(l, h, k)
  \/ \E l, h \in TwoHeads, k \in 1..(NumElems + 1) : BCutBefore(l, h, k)
  \/ \E h \in TwoHeads, i, j \in 1..NumElems : BBulkMoveTail(h, i, j)
  \/ \E e1, e2 \in Elems : BSwap(e1, e2)
  \/ \E l, h \in TwoHeads : BSplice(l, h)
  \/ \E l, h \in TwoHeads : BSpliceTail(l, h)
  \/ BReinit

SpecBulk == InitAll /\ [][NextBulk]_vars

\* a cut onto a list that held entries has just been made
Lost == lastOp.op \in {"list_cut_position_over", "list_cut_before_over"}

\* the caller value-initialises the elements it gave up, those on no ring
BForget ==
  /\ Lost
  /\ mem' = [n \in AllNodes |->
              IF \E e \in Elems \ (Range(ref) \cup Range(refB)) : n = Entry(e)
              THEN InitMemAll[n] ELSE mem[n]]
  /\ UNCHANGED <<ref, refB>>
  /\ BDone("forget", lastOp.arg.list, lastOp.arg.list, <<>>)

\* the cuts alone, onto empty lists and onto lists that hold entries
NextCut ==
  \/ \E h \in TwoHeads, e \in Elems : ~Lost /\ BAddTail(h, e)
  \/ \E l, h \in TwoHeads, k \in 0..NumElems :
       ~Lost /\ BCutPosition(l, h, k)
  \/ \E l, h \in TwoHeads, k \in 1..(NumElems + 1) :
       ~Lost /\ BCutBefore(l, h, k)
  \/ \E l, h \in TwoHeads, k \in 0..NumElems :
       ~Lost /\ BCutPositionOver(l, h, k)
  \/ \E l, h \in TwoHeads, k \in 1..(NumElems + 1) :
       ~Lost /\ BCutBeforeOver(l, h, k)
  \/ BForget

SpecCut == InitAll /\ [][NextCut]_vars

\* list_replace_init(old, new): old is the entry of the linked element e, new
\* the entry of an element on no ring.  run holds the nodes old and new.
BReplaceInit(e, f) ==
  /\ e \in Range(ref) \cup Range(refB)
  /\ f \in Elems \ (Range(ref) \cup Range(refB))
  /\ mem' = list_replace_init(mem, Entry(e), Entry(f))
  /\ ref' = [k \in 1..Len(ref) |-> IF ref[k] = e THEN f ELSE ref[k]]
  /\ refB' = [k \in 1..Len(refB) |-> IF refB[k] = e THEN f ELSE refB[k]]
  /\ BDone("list_replace_init", HomeOf(e), HomeOf(e), <<Entry(e), Entry(f)>>)

\* list_replace_init(old, new): old is the head of an empty list, new the
\* entry of an element on no ring
BReplaceInitHead(head, f) ==
  /\ RefOf(head) = <<>>
  /\ f \in Elems \ (Range(ref) \cup Range(refB))
  /\ mem' = list_replace_init(mem, head.head, Entry(f))
  /\ UNCHANGED <<ref, refB>>
  /\ BDone("list_replace_init", head, head, <<head.head, Entry(f)>>)

\* list_rotate_to_front(x, head): x is the k-th entry of head
BRotateToFront(head, k) ==
  /\ k \in 1..Len(RefOf(head))
  /\ mem' = list_rotate_to_front(mem, Entry(RefOf(head)[k]), head.head)
  /\ SetRef(head, SubSeq(RefOf(head), k, Len(RefOf(head)))
                  \o SubSeq(RefOf(head), 1, k - 1))
  /\ BDone("list_rotate_to_front", head, head, <<RefOf(head)[k]>>)

NextEntry ==
  \/ \E h \in TwoHeads, e \in Elems : BAddTail(h, e)
  \/ \E e, f \in Elems : BReplaceInit(e, f)
  \/ \E h \in TwoHeads, f \in Elems : BReplaceInitHead(h, f)
  \/ \E h \in TwoHeads, k \in 1..NumElems : BRotateToFront(h, k)

SpecEntry == InitAll /\ [][NextEntry]_vars

BulkOps ==
  {"list_splice_init", "list_splice_tail_init", "list_cut_position",
   "list_cut_before", "list_bulk_move_tail", "list_swap"}

\* the elements on the two rings of memory m, as the loops yield them
OnRings(m) == IterateOn(m, ListA).items \o IterateOn(m, ListB).items

\* C16: list_splice_init, list_splice_tail_init, list_cut_position,
\* list_cut_before, list_bulk_move_tail and list_swap, applied to well-formed
\* rings under their preconditions, leave every ring well-formed: every node n
\* of both rings, both heads included, has n.next.prev == n and
\* n.prev.next == n, and no element is lost or duplicated.
C16_BulkOpsKeepRings ==
  lastOp.op \in BulkOps =>
    /\ WellFormed(mem, ListA, ref)
    /\ WellFormed(mem, ListB, refB)
    /\ IterateOn(mem, ListA).items = ref
    /\ IterateOn(mem, ListB).items = refB
    /\ NoDuplicates(OnRings(mem))
    /\ Range(OnRings(mem)) = Range(OnRings(pre))
    /\ Len(OnRings(mem)) = Len(OnRings(pre))

C16_Witness ==
  /\ lastOp.op = "list_swap"
  /\ Len(ref) >= 2
  /\ Len(refB) >= 2
  /\ lastOp.arg.list # lastOp.arg.head
  /\ mem # pre

\* prev inverts next at node n of memory m
InverseAt(m, n) ==
  /\ m[n].next \in AllNodes
  /\ m[n].prev \in AllNodes
  /\ m[m[n].next].prev = n
  /\ m[m[n].prev].next = n

\* C17 as claimed: after list_splice(list, head) or list_splice_tail(list,
\* head) on two well-formed rings, every node, both heads list and head
\* included, has n.next.prev == n and n.prev.next == n.
C17_SpliceKeepsBothHeads ==
  Stale =>
    \A n \in {ListA.head, ListB.head}
             \cup { Entry(e) : e \in Range(ref) \cup Range(refB) } :
      InverseAt(mem, n)

\* C17: after list_splice(list, head) or list_splice_tail(list, head) on two
\* well-formed rings, head and every entry of both lists have n.next.prev == n
\* and n.prev.next == n, and all entries are on head's ring; the source head
\* list keeps its next and prev, so that for a non-empty list it has
\* list.next.prev != list and list.prev.next != list, while for an empty list
\* nothing changes.
C17_SpliceKeepsJoinedRing ==
  Stale =>
    LET list == lastOp.arg.list
        head == lastOp.arg.head
    IN  /\ WellFormed(mem, head, RefOf(head))
        /\ IterateOn(mem, head).items = RefOf(head)
        /\ mem[list.head] = pre[list.head]
        /\ lastOp.arg.run = <<>> => mem = pre /\ InverseAt(mem, list.head)
        /\ lastOp.arg.run # <<>> =>
             /\ mem[mem[list.head].next].prev # list.head
             /\ mem[mem[list.head].prev].next # list.head
             /\ Range(lastOp.arg.run) \subseteq Range(RefOf(head))

C17_Witness ==
  /\ lastOp.op = "list_splice_tail"
  /\ Len(lastOp.arg.run) >= 2
  /\ Len(RefOf(lastOp.arg.head)) > Len(lastOp.arg.run)
  /\ ~InverseAt(mem, lastOp.arg.list.head)
  /\ InverseAt(mem, lastOp.arg.head.head)

MovingOps ==
  {"list_splice_init", "list_splice_tail_init", "list_cut_position",
   "list_cut_before", "list_bulk_move_tail"}

\* C18: list_splice_init, list_splice_tail_init, list_cut_position,
\* list_cut_before and list_bulk_move_tail rewrite only boundary pointers: the
\* next and prev of every node of the moved run that point to another node of
\* the run are left unchanged, whatever the length of the run.
C18_InteriorLinksUntouched ==
  lastOp.op \in MovingOps =>
    LET run == { Entry(e) : e \in Range(lastOp.arg.run) }
    IN  \A x \in run :
          /\ pre[x].next \in run => mem[x].next = pre[x].next
          /\ pre[x].prev \in run => mem[x].prev = pre[x].prev

C18_Witness ==
  /\ lastOp.op = "list_cut_position"
  /\ Len(lastOp.arg.run) >= 3
  /\ Len(RefOf(lastOp.arg.head)) >= 1
  /\ mem # pre
  /\ mem[Entry(lastOp.arg.run[2])] = pre[Entry(lastOp.arg.run[2])]

-----------------------------------------------------------------------------
(* One list<T, &T::node1>, its operations one pointer write at a time, and  *)
(* a second thread that reads the list                                      *)

\* variant: the predecessor's next is not rewritten
remove_self_upto_OneSided(m, n, k) ==
  LET m1 == SetPrev(m, m[n].next, m[n].prev)
      m2 == m1
      m3 == SetNext(m2, n, Null)
      m4 == SetPrev(m3, n, Null)
  IN  CASE k = 0 -> m [] k = 1 -> m1 [] k = 2 -> m2 [] k = 3 -> m3
        [] OTHER -> m4

\* memory after the first k assignments of n.remove_self_from_list()
remove_self_upto(m, n, k) ==
  LET m1 == SetPrev(m, m[n].next, m[n].prev)
      m2 == SetNext(m1, m1[n].prev, m1[n].next)
      m3 == SetNext(m2, n, Null)
      m4 == SetPrev(m3, n, Null)
  IN  CASE k = 0 -> m [] k = 1 -> m1 [] k = 2 -> m2 [] k = 3 -> m3
        [] OTHER -> m4

\* memory after the first k assignments of _list_add(new, prev, next)
_list_add_upto(m, new, prev, next, k) ==
  LET m1 == SetPrev(m, next, new)
      m2 == SetNext(m1, new, next)
      m3 == SetPrev(m2, new, prev)
      m4 == SetNext(m3, prev, new)
  IN  CASE k = 0 -> m [] k = 1 -> m1 [] k = 2 -> m2 [] k = 3 -> m3
        [] OTHER -> m4

\* number of assignments the call makes, started in memory m
WritesOf(m, op, arg) ==
  CASE op \in {"push_front", "push_back", "pop_front", "pop_back"} -> 4
    [] op = "remove_if_exists" ->
         IF have_container(m, get_node(arg)) THEN 4 ELSE 0
    [] op = "rotate_left" -> IF list_empty(m, head_) THEN 0 ELSE 8

\* memory after the first k assignments of the call, started in memory m
StepMem(m, op, arg, k) ==
  CASE op = "push_front" ->
         _list_add_upto(m, get_node(arg), head_, m[head_].next, k)
    [] op = "push_back" ->
         _list_add_upto(m, get_node(arg), m[head_].prev, head_, k)
    [] op = "pop_front" -> remove_self_upto(m, get_node(front(m)), k)
    [] op = "pop_back" -> remove_self_upto(m, get_node(back(m)), k)
    [] op = "remove_if_exists" ->
         IF have_container(m, get_node(arg))
         THEN remove_self_upto(m, get_node(arg), k) ELSE m
    [] op = "rotate_left" ->
         IF list_empty(m, head_) THEN m
         ELSE IF k <= 4 THEN remove_self_upto(m, m[head_].next, k)
         ELSE LET first == m[head_].next
                  m4 == remove_self_upto(m, first, 4)
              IN  _list_add_upto(m4, first, m4[head_].prev, head_, k - 4)

\* the reference sequence after the call
RefAfter(s, op, arg) ==
  CASE op = "push_front" -> <<arg>> \o s
    [] op = "push_back" -> Append(s, arg)
    [] op = "pop_front" -> Tail(s)
    [] op = "pop_back" -> Front(s)
    [] op = "remove_if_exists" -> Without(s, arg)
    [] op = "rotate_left" -> IF s = <<>> THEN s ELSE Append(Tail(s), s[1])

StepElems == FieldElems

StepOps ==
  {"push_front", "push_back", "pop_front", "pop_back", "remove_if_exists",
   "rotate_left"}

\* the caller's precondition of the call
MayCall(op, arg) ==
  CASE op \in {"push_front", "push_back"} ->
         arg \in StepElems /\ arg \notin Range(ref)
    [] op \in {"pop_front", "pop_back"} -> arg = Null /\ ref # <<>>
    [] op = "remove_if_exists" -> arg \in StepElems
    [] op = "rotate_left" -> arg = Null

\* what a reader of the list sees: prev inverts next on the sentinel and on
\* every element of the list
SeesWholeRing ==
  \A n \in {head_} \cup { get_node(e) : e \in Range(ref) } :
    /\ mem[n].next \in Nodes
    /\ mem[n].prev \in Nodes
    /\ mem[mem[n].next].prev = n
    /\ mem[mem[n].prev].next = n

stepFrame == <<it, trav, pushRun, rotBase, rotCount, pre, lastOp, refB, inp>>

\* the writing thread enters an operation
SCall(op, arg) ==
  /\ pc = NoPc
  /\ MayCall(op, arg)
  /\ pc' = [op |-> op, step |-> 0, arg |-> arg, start |-> mem]
  /\ UNCHANGED <<mem, ref, out>>
  /\ UNCHANGED stepFrame

\* the writing thread makes the next assignment of the operation
SWrite ==
  /\ pc # NoPc
  /\ pc.step < WritesOf(pc.start, pc.op, pc.arg)
  /\ mem' = StepMem(pc.start, pc.op, pc.arg, pc.step + 1)
  /\ pc' = [pc EXCEPT !.step = @ + 1]
  /\ UNCHANGED <<ref, out>>
  /\ UNCHANGED stepFrame

\* the operation returns
SReturn ==
  /\ pc # NoPc
  /\ pc.step = WritesOf(pc.start, pc.op, pc.arg)
  /\ pc' = NoPc
  /\ ref' = RefAfter(ref, pc.op, pc.arg)
  /\ UNCHANGED <<mem, out>>
  /\ UNCHANGED stepFrame

\* another thread reads the list while it holds the lock that every operation
\* is made under: no operation is in progress
SReadLocked ==
  /\ pc = NoPc
  /\ out' = <<[ok |-> SeesWholeRing, locked |-> TRUE]>>
  /\ UNCHANGED <<mem, ref, pc>>
  /\ UNCHANGED stepFrame

\* another thread reads the list with no lock: the list has none of its own
SReadUnlocked ==
  /\ out' = <<[ok |-> SeesWholeRing, locked |-> FALSE]>>
  /\ UNCHANGED <<mem, ref, pc>>
  /\ UNCHANGED stepFrame

NextSteps ==
  \/ \E op \in StepOps, arg \in StepElems \cup {Null} : SCall(op, arg)
  \/ SWrite
  \/ SReturn
  \/ SReadLocked
  \/ SReadUnlocked

SpecSteps == Init /\ [][NextSteps]_vars

\* C19 as claimed: while one thread executes push_front, push_back, pop_front,
\* pop_back, remove_if_exists or rotate_left, no other thread that reads the
\* list between the operation's pointer writes observes a partially rewired
\* state, one in which a node of the ring has n.next.prev != n or
\* n.prev.next != n.
C19_NoPartialStateObserved ==
  out # <<>> => out[1].ok

\* C19: a thread that reads the list under the external mutual exclusion the
\* callers provide, that is between complete operations, observes no partially
\* rewired state, and each completed operation has made exactly the writes of
\* its body; the list itself gives a reader without that exclusion no such
\* protection.
C19_WholeRingBetweenOperations ==
  /\ (out # <<>> /\ out[1].locked) => out[1].ok
  /\ pc = NoPc => SeesWholeRing
  /\ (pc # NoPc /\ pc.step = WritesOf(pc.start, pc.op, pc.arg)) =>
       mem = CASE pc.op = "push_front" -> push_front(pc.start, pc.arg)
               [] pc.op = "push_back" -> push_back(pc.start, pc.arg)
               [] pc.op = "pop_front" -> pop_front(pc.start)
               [] pc.op = "pop_back" -> pop_back(pc.start)
               [] pc.op = "remove_if_exists" ->
                    remove_if_exists(pc.start, pc.arg)
               [] pc.op = "rotate_left" -> rotate_left(pc.start)

C19_Witness ==
  /\ out # <<>>
  /\ out[1].locked
  /\ out[1].ok
  /\ Len(ref) >= 2
  /\ pc = NoPc
  /\ mem # InitMem

-----------------------------------------------------------------------------
(* forward_list<T, &T::node1>: a head node and one next link per element;   *)
(* the last element's next is null                                          *)

\* forward_list() and value-initialised elements
InitFwdMem == [n \in Nodes |-> [next |-> Null]]

fwd_empty(m) == m[head_].next = Null

\* front(): the owner of the first node
fwd_front(m) == get_owner(m[head_].next)

\* variant: the new first element does not take over the old head
fwd_push_front_DropRest(m, item) ==
  LET node == get_node(item)
      m1 == [m EXCEPT ![node].next = Null]
  IN  [m1 EXCEPT ![head_].next = node]

\* push_front(item): item's next becomes the current head, item the new head
fwd_push_front(m, item) ==
  LET node == get_node(item)
      m1 == [m EXCEPT ![node].next = m[head_].next]
  IN  [m1 EXCEPT ![head_].next = node]

\* pop_front(): the head moves to the second node; whether the popped node's
\* next is reset to null is left open, and both are modelled
fwd_pop_front(m, clear) ==
  LET first == m[head_].next
      m1 == [m EXCEPT ![head_].next = m[first].next]
  IN  IF clear THEN [m1 EXCEPT ![first].next = Null] ELSE m1

fwd_begin(m) == m[head_].next

fwd_end == Null

\* for (j = begin(); j != end(); ++j) collect *j
RECURSIVE FwdLoop(_, _, _)
FwdLoop(m, node, fuel) ==
  IF node = fwd_end THEN [ok |-> TRUE, items |-> <<>>]
  ELSE IF fuel = 0 \/ node \notin Nodes THEN [ok |-> FALSE, items |-> <<>>]
  ELSE LET rest == FwdLoop(m, m[node].next, fuel - 1)
       IN  [ok |-> rest.ok, items |-> <<get_owner(node)>> \o rest.items]

FwdIterate(m) == FwdLoop(m, fwd_begin(m), Cardinality(Nodes))

fwdFrame == <<it, trav, rotBase, rotCount, pre, lastOp, refB, pc, inp>>

InitFwd ==
  /\ mem = InitFwdMem
  /\ ref = <<>>
  /\ it = Null
  /\ trav = NoTrav
  /\ pushRun = NoRun
  /\ rotBase = <<>>
  /\ rotCount = 0
  /\ pre = InitFwdMem
  /\ lastOp = NoOp
  /\ refB = <<>>
  /\ pc = NoPc
  /\ inp \in { [clear |-> b] : b \in BOOLEAN }
  /\ out = <<>>

\* list.push_front(&e) for an element that is not on the list
FwdPushFront(e) ==
  /\ e \notin Range(ref)
  /\ mem' = fwd_push_front(mem, e)
  /\ ref' = <<e>> \o ref
  /\ pushRun' = IF ref = <<>> THEN [kind |-> "front", seq |-> <<e>>]
                ELSE IF pushRun.kind = "front"
                     THEN [pushRun EXCEPT !.seq = Append(@, e)]
                     ELSE NoRun
  /\ out' = <<>>
  /\ UNCHANGED fwdFrame

\* node = list.front(); list.pop_front(); on a list that is not empty
FwdPopFront(clear) ==
  /\ ~fwd_empty(mem)
  /\ mem' = fwd_pop_front(mem, clear)
  /\ ref' = Tail(ref)
  /\ pushRun' = IF pushRun.kind \in {"front", "drain"}
                THEN [pushRun EXCEPT !.kind = "drain"] ELSE NoRun
  /\ out' = IF pushRun.kind \in {"front", "drain"}
            THEN Append(out, fwd_front(mem)) ELSE <<>>
  /\ UNCHANGED fwdFrame

\* variant: after unlinking a match the scan steps over the node that follows
RECURSIVE RemoveIfLoop_SkipAfterMatch(_, _, _, _, _, _)
RemoveIfLoop_SkipAfterMatch(m, pred, clear, prev, count, fuel) ==
  LET cur == m[prev].next
  IN  IF cur = Null \/ fuel = 0 \/ cur \notin Nodes
      THEN [ret |-> count, mem |-> m]
      ELSE IF get_owner(cur) \in pred
      THEN LET m1 == [m EXCEPT ![prev].next = m[cur].next]
               m2 == IF clear THEN [m1 EXCEPT ![cur].next = Null] ELSE m1
               nxt == m[cur].next
           IN  RemoveIfLoop_SkipAfterMatch(
                 m2, pred, clear, IF nxt = Null THEN prev ELSE nxt,
                 count + 1, fuel - 1)
      ELSE RemoveIfLoop_SkipAfterMatch(m, pred, clear, cur, count, fuel - 1)

\* the scan of remove_if from the node prev on: a node that satisfies pred is
\* unlinked from its predecessor and the scan goes on from that predecessor
RECURSIVE RemoveIfLoop(_, _, _, _, _, _)
RemoveIfLoop(m, pred, clear, prev, count, fuel) ==
  LET cur == m[prev].next
  IN  IF cur = Null \/ fuel = 0 \/ cur \notin Nodes
      THEN [ret |-> count, mem |-> m]
      ELSE IF get_owner(cur) \in pred
      THEN LET m1 == [m EXCEPT ![prev].next = m[cur].next]
               m2 == IF clear THEN [m1 EXCEPT ![cur].next = Null] ELSE m1
           IN  RemoveIfLoop(m2, pred, clear, prev, count + 1, fuel - 1)
      ELSE RemoveIfLoop(m, pred, clear, cur, count, fuel - 1)

\* remove_if(pred): one pass from the head; the count removed and the memory
\* afterwards.  pred is the set of elements the predicate holds of.
fwd_remove_if(m, pred, clear) ==
  RemoveIfLoop(m, pred, clear, head_, 0, Cardinality(Nodes))

\* the elements of s outside pred, in the order of s
Rejecting(s, pred) ==
  LET Test(e) == e \notin pred IN SelectSeq(s, Test)

\* i.value = num++: the value of an element is its number
ValueOf(e) == (e - ObjBase) \div SizeofT + 1

\* the elements whose value satisfies lo < value && value < hi
Between(lo, hi) == { e \in Elems : lo < ValueOf(e) /\ ValueOf(e) < hi }

\* the predicates value > lo && value < hi, each as the set of elements it
\* holds of
Predicates ==
  { Between(lo, hi) : lo \in 0 .. NumElems, hi \in 1 .. (NumElems + 1) }

\* count = list.remove_if([](const list_test_struct& i) {
\*   return i.value > lo && i.value < hi; })
FwdRemoveIf(pred, clear) ==
  LET r == fwd_remove_if(mem, pred, clear)
  IN  /\ mem' = r.mem
      /\ ref' = Rejecting(ref, pred)
      /\ pushRun' = [kind |-> "remove_if", seq |-> ref, pred |-> pred]
      /\ out' = <<r.ret>>
      /\ UNCHANGED fwdFrame

NextFwd ==
  \/ \E e \in Elems : FwdPushFront(e)
  \/ FwdPopFront(inp.clear)
  \/ \E pred \in Predicates : FwdRemoveIf(pred, inp.clear)

SpecFwd == InitFwd /\ [][NextFwd]_vars

\* C20: forward_list is LIFO.  After push_front of e1..en in that order on an
\* empty list, iteration from begin() to end() yields en, ..., e1; repetitions
\* of front() followed by pop_front() return en, ..., e1 in that order, what
\* is still linked is the rest of that order, and after n of them the list is
\* empty.
C20_ForwardListLifo ==
  /\ pushRun.kind = "front" =>
       FwdIterate(mem) = [ok |-> TRUE, items |-> Reverse(pushRun.seq)]
  /\ pushRun.kind = "drain" =>
       LET order == Reverse(pushRun.seq)
           n == Len(order)
       IN  /\ Len(out) <= n
           /\ out = SubSeq(order, 1, Len(out))
           /\ FwdIterate(mem) =
                [ok |-> TRUE, items |-> SubSeq(order, Len(out) + 1, n)]
           /\ Len(out) = n => fwd_empty(mem)

C20_Witness ==
  /\ pushRun.kind = "drain"
  /\ Len(pushRun.seq) >= 3
  /\ out = Reverse(pushRun.seq)
  /\ fwd_empty(mem)

\* C21: remove_if(pred) unlinks every linked element that satisfies pred, at
\* the head, at the tail or next to another match, returns how many it
\* unlinked, keeps the other elements linked in their former order, and a
\* repeated call with the same predicate returns 0 and changes nothing.
C21_RemoveIfFilters ==
  pushRun.kind = "remove_if" =>
    LET kept == Rejecting(pushRun.seq, pushRun.pred)
    IN  /\ out = <<Len(pushRun.seq) - Len(kept)>>
        /\ FwdIterate(mem) = [ok |-> TRUE, items |-> kept]
        /\ \A clear \in BOOLEAN :
             fwd_remove_if(mem, pushRun.pred, clear) = [ret |-> 0, mem |-> mem]

C21_Witness ==
  /\ pushRun.kind = "remove_if"
  /\ Len(pushRun.seq) = 4
  /\ pushRun.seq[1] \in pushRun.pred
  /\ pushRun.seq[2] \in pushRun.pred
  /\ pushRun.seq[3] \notin pushRun.pred
  /\ pushRun.seq[4] \in pushRun.pred
  /\ out = <<3>>
  /\ FwdIterate(mem).items = <<pushRun.seq[3]>>

\* the entries of the ring headed by this in memory m, as the loop yields them
ItemsOf(m, this) == IterateOn(m, this).items

\* the node is an empty ring
EmptyRing(m, n) == m[n] = [next |-> n, prev |-> n]

\* C22: list_splice_init(list, head) on a non-empty list puts list's entries,
\* in their order, right after head, ahead of head's former entries;
\* list_splice_tail_init(list, head) puts them, in their order, right before
\* head, after head's former entries; list is an empty ring afterwards; with
\* an empty list neither ring changes.
C22_SpliceInitOrder ==
  lastOp.op \in {"list_splice_init", "list_splice_tail_init"} =>
    LET list == lastOp.arg.list
        head == lastOp.arg.head
        moved == ItemsOf(pre, list)
    IN  /\ lastOp.op = "list_splice_init" =>
             ItemsOf(mem, head) = moved \o ItemsOf(pre, head)
        /\ lastOp.op = "list_splice_tail_init" =>
             ItemsOf(mem, head) = ItemsOf(pre, head) \o moved
        /\ IterateOn(mem, head).ok
        /\ WellFormed(mem, head, ItemsOf(mem, head))
        /\ EmptyRing(mem, list.head)
        /\ moved = <<>> => mem = pre

C22_Witness ==
  /\ lastOp.op = "list_splice_init"
  /\ Len(ItemsOf(pre, lastOp.arg.list)) >= 2
  /\ Len(ItemsOf(pre, lastOp.arg.head)) >= 2
  /\ ItemsOf(mem, lastOp.arg.head) =
       ItemsOf(pre, lastOp.arg.list) \o ItemsOf(pre, lastOp.arg.head)
  /\ EmptyRing(mem, lastOp.arg.list.head)

CutPositionOps == {"list_cut_position", "list_cut_position_over"}

\* C23: list_cut_position(list, head, entry), with entry head itself or an
\* entry of head and list empty or holding entries the caller gives up, moves
\* the part of head up to and including entry to list in the same order and
\* leaves the rest on head in order; list then holds exactly the moved
\* entries, none when entry is head, whatever head holds, nothing or one
\* entry included.
C23_CutPositionExact ==
  lastOp.op \in CutPositionOps =>
    LET list == lastOp.arg.list
        head == lastOp.arg.head
        before == ItemsOf(pre, head)
        k == Len(lastOp.arg.run)
    IN  /\ lastOp.arg.run = SubSeq(before, 1, k)
        /\ IterateOn(mem, list).ok
        /\ ItemsOf(mem, list) = SubSeq(before, 1, k)
        /\ IterateOn(mem, head).ok
        /\ ItemsOf(mem, head) = SubSeq(before, k + 1, Len(before))

CutBeforeOps == {"list_cut_before", "list_cut_before_over"}

\* C24: list_cut_before(list, head, entry), with entry on head or head itself,
\* moves the part of head before entry to list in the same order and leaves
\* entry and what follows it on head; with entry head everything moves and
\* head is empty; with entry the first entry of head list is empty and head
\* unchanged; what list held before is discarded in every case.
C24_CutBeforeExact ==
  lastOp.op \in CutBeforeOps =>
    LET list == lastOp.arg.list
        head == lastOp.arg.head
        before == ItemsOf(pre, head)
        k == Len(lastOp.arg.run)
    IN  /\ lastOp.arg.run = SubSeq(before, 1, k)
        /\ WellFormed(mem, list, SubSeq(before, 1, k))
        /\ ItemsOf(mem, list) = SubSeq(before, 1, k)
        /\ WellFormed(mem, head, SubSeq(before, k + 1, Len(before)))
        /\ ItemsOf(mem, head) = SubSeq(before, k + 1, Len(before))
        /\ k = Len(before) => EmptyRing(mem, head.head)
        /\ k = 0 => /\ EmptyRing(mem, list.head)
                    /\ mem[head.head] = pre[head.head]
                    /\ \A e \in Range(before) : mem[Entry(e)] = pre[Entry(e)]

C24_Witness ==
  /\ lastOp.op = "list_cut_before_over"
  /\ Len(lastOp.arg.run) >= 2
  /\ Len(ItemsOf(pre, lastOp.arg.head)) > Len(lastOp.arg.run)
  /\ ItemsOf(pre, lastOp.arg.list) # <<>>
  /\ ItemsOf(mem, lastOp.arg.list) = lastOp.arg.run

\* the other of the two heads
OtherHead(this) == IF this = ListA THEN ListB ELSE ListA

\* C25: list_bulk_move_tail(head, first, last), first..last a contiguous run
\* of entries of head, moves the run to right before head and keeps the order
\* within the run and the order of the other entries, also when the run is
\* at the tail already, starts at the first entry or is the whole list.
C25_BulkMoveTailOrder ==
  lastOp.op = "list_bulk_move_tail" =>
    LET head == lastOp.arg.head
        run == lastOp.arg.run
        before == ItemsOf(pre, head)
    IN  /\ \E i \in 1..Len(before) : run = SubSeq(before, i, i + Len(run) - 1)
        /\ ItemsOf(mem, head) = Rejecting(before, Range(run)) \o run
        /\ WellFormed(mem, head, ItemsOf(mem, head))
        /\ ItemsOf(mem, OtherHead(head)) = ItemsOf(pre, OtherHead(head))
        /\ WellFormed(mem, OtherHead(head), ItemsOf(pre, OtherHead(head)))

C25_Witness ==
  /\ lastOp.op = "list_bulk_move_tail"
  /\ Len(ItemsOf(pre, lastOp.arg.head)) = 4
  /\ lastOp.arg.run = SubSeq(ItemsOf(pre, lastOp.arg.head), 2, 3)
  /\ ItemsOf(mem, lastOp.arg.head) # ItemsOf(pre, lastOp.arg.head)

\* C26: list_swap(entry1, entry2) for two distinct linked entries, of one ring
\* or of two, adjacent in either order or not, puts entry2 where entry1 was
\* and entry1 where entry2 was and leaves every other entry in its place;
\* a second list_swap(entry1, entry2) restores the former order.
C26_SwapExchanges ==
  lastOp.op = "list_swap" =>
    LET e1 == lastOp.arg.run[1]
        e2 == lastOp.arg.run[2]
        again == list_swap(mem, Entry(e1), Entry(e2))
    IN  /\ ItemsOf(mem, ListA) = Exchange(ItemsOf(pre, ListA), e1, e2)
        /\ ItemsOf(mem, ListB) = Exchange(ItemsOf(pre, ListB), e1, e2)
        /\ WellFormed(mem, ListA, ItemsOf(mem, ListA))
        /\ WellFormed(mem, ListB, ItemsOf(mem, ListB))
        /\ ItemsOf(again, ListA) = ItemsOf(pre, ListA)
        /\ ItemsOf(again, ListB) = ItemsOf(pre, ListB)
        /\ WellFormed(again, ListA, ItemsOf(pre, ListA))
        /\ WellFormed(again, ListB, ItemsOf(pre, ListB))

\* entry2 was right before entry1 on a ring of three or more
C26_Witness ==
  /\ lastOp.op = "list_swap"
  /\ pre[Entry(lastOp.arg.run[2])].next = Entry(lastOp.arg.run[1])
  /\ Len(ItemsOf(pre, lastOp.arg.list)) >= 3
  /\ ItemsOf(mem, lastOp.arg.list) # ItemsOf(pre, lastOp.arg.list)

\* C27: list_replace_init(old, new) puts new where old was: new takes old's
\* former neighbours, which point back to new, and every other link is as it
\* was; old is left an empty ring; when old was the head of an empty list,
\* new is an empty ring as well.
C27_ReplaceInit ==
  lastOp.op = "list_replace_init" =>
    LET old == lastOp.arg.run[1]
        new == lastOp.arg.run[2]
    IN  /\ EmptyRing(mem, old)
        /\ IF pre[old].next = old THEN EmptyRing(mem, new)
           ELSE /\ mem[new] = pre[old]
                /\ mem[mem[new].next].prev = new
                /\ mem[mem[new].prev].next = new
        /\ \A n \in AllNodes \ {old, new} :
             /\ mem[n].next = IF pre[n].next = old THEN new ELSE pre[n].next
             /\ mem[n].prev = IF pre[n].prev = old THEN new ELSE pre[n].prev
        /\ WellFormed(mem, ListA, ref)
        /\ WellFormed(mem, ListB, refB)
        /\ ItemsOf(mem, ListA) = ref
        /\ ItemsOf(mem, ListB) = refB

C27_Witness ==
  /\ lastOp.op = "list_replace_init"
  /\ Len(ItemsOf(mem, lastOp.arg.head)) >= 3
  /\ pre[lastOp.arg.run[1]].next \notin {ListA.head, ListB.head}
  /\ pre[lastOp.arg.run[1]].prev \notin {ListA.head, ListB.head}
  /\ mem[lastOp.arg.run[2]] = pre[lastOp.arg.run[1]]
  /\ EmptyRing(mem, lastOp.arg.run[1])

\* C28: list_rotate_to_front(x, head), x an entry of head, makes x the first
\* entry of head and keeps the cyclic order: the entries that were before x
\* follow the former last entry in their order, none is lost, and the ring is
\* well-formed, also when x is the first entry already or the only one.
C28_RotateToFront ==
  lastOp.op = "list_rotate_to_front" =>
    LET head == lastOp.arg.head
        x == lastOp.arg.run[1]
        before == ItemsOf(pre, head)
    IN  /\ \E k \in 1..Len(before) :
             /\ before[k] = x
             /\ ItemsOf(mem, head) =
                  SubSeq(before, k, Len(before)) \o SubSeq(before, 1, k - 1)
        /\ mem[head.head].next = Entry(x)
        /\ WellFormed(mem, head, ItemsOf(mem, head))
        /\ ItemsOf(mem, OtherHead(head)) = ItemsOf(pre, OtherHead(head))
        /\ WellFormed(mem, OtherHead(head), ItemsOf(pre, OtherHead(head)))

C28_Witness ==
  /\ lastOp.op = "list_rotate_to_front"
  /\ Len(ItemsOf(pre, lastOp.arg.head)) = 4
  /\ ItemsOf(pre, lastOp.arg.head)[3] = lastOp.arg.run[1]
  /\ mem[lastOp.arg.head.head].next = Entry(lastOp.arg.run[1])
  /\ mem # pre

\* old was the head of an empty list
C27_EmptyHeadReached ==
  /\ lastOp.op = "list_replace_init"
  /\ pre[lastOp.arg.run[1]].next = lastOp.arg.run[1]
  /\ EmptyRing(mem, lastOp.arg.run[2])

\* C29: pop_front() or pop_back() on an empty list, which nothing checks,
\* unlinks the sentinel from itself and sets the sentinel's next and prev to
\* null; empty() is false afterwards although no element is linked.
C29_PopOnEmptyBreaksSentinel ==
  Broken =>
    /\ pre[head_] = [next |-> head_, prev |-> head_]
    /\ mem[head_] = [next |-> Null, prev |-> Null]
    /\ ~empty(mem)
    /\ ref = <<>>
    /\ \A e \in Elems :
         /\ ~have_container(mem, get_node(e))
         /\ mem[get_node(e)] = pre[get_node(e)]

C29_Witness ==
  /\ lastOp.op = "pop_back on empty"
  /\ mem[head_] = [next |-> Null, prev |-> Null]
  /\ ~empty(mem)
  /\ ref = <<>>

\* C30: remove_if_exists(item) does not depend on the list it is called on:
\* called on one list for an item linked in another list through the same
\* field, it unlinks the item from that other list and leaves the sentinel
\* and the elements of the list it was called on unchanged.
C30_RemoveFromOtherList ==
  (/\ lastOp.op = "remove_if_exists"
   /\ lastOp.arg \in Range(ItemsOf(pre, OtherHead(lastOp.on)))) =>
    LET this == lastOp.on
        that == OtherHead(this)
        x == lastOp.arg
    IN  /\ ItemsOf(mem, that) = Without(ItemsOf(pre, that), x)
        /\ WellFormed(mem, that, ItemsOf(mem, that))
        /\ mem[node_of(that, x)] = [next |-> Null, prev |-> Null]
        /\ mem[this.head] = pre[this.head]
        /\ ItemsOf(mem, this) = ItemsOf(pre, this)
        /\ \A a \in Range(ItemsOf(pre, this)) :
             mem[node_of(this, a)] = pre[node_of(this, a)]

C30_Witness ==
  /\ lastOp.op = "remove_if_exists"
  /\ lastOp.on = ListA
  /\ lastOp.arg \in Range(ItemsOf(pre, ListB))
  /\ lastOp.arg \notin Range(ItemsOf(mem, ListB))
  /\ Len(ItemsOf(pre, ListA)) >= 1
  /\ Len(ItemsOf(mem, ListB)) >= 2

-----------------------------------------------------------------------------
(* Pushes and pops at either end, with the memory before the last push kept  *)

invFrame == <<it, trav, pushRun, rotBase, rotCount, refB, pc>>

\* push_front(e) or push_back(e) of an element that is not linked; inp keeps
\* the memory before the call
IPush(at, e) ==
  /\ e \notin Range(ref)
  /\ mem' = IF at = "front" THEN push_front(mem, e) ELSE push_back(mem, e)
  /\ ref' = IF at = "front" THEN <<e>> \o ref ELSE Append(ref, e)
  /\ pre' = mem
  /\ lastOp' = [op |-> "push", arg |-> e, at |-> at]
  /\ inp' = [base |-> mem, x |-> e, at |-> at]
  /\ out' = <<>>
  /\ UNCHANGED invFrame

\* pop_front() or pop_back() on a list that is not empty; out holds the record
\* of the push when the pop follows a push at the same end
IPop(at) ==
  /\ ref # <<>>
  /\ mem' = IF at = "front" THEN pop_front(mem) ELSE pop_back(mem)
  /\ ref' = IF at = "front" THEN Tail(ref) ELSE Front(ref)
  /\ pre' = mem
  /\ lastOp' = [op |-> "pop", arg |-> Null, at |-> at]
  /\ out' = IF lastOp.op = "push" /\ lastOp.at = at THEN <<inp>> ELSE <<>>
  /\ UNCHANGED inp
  /\ UNCHANGED invFrame

NextInverse ==
  \/ \E at \in {"front", "back"}, e \in Elems : IPush(at, e)
  \/ \E at \in {"front", "back"} : IPop(at)

SpecInverse == Init /\ [][NextInverse]_vars

\* C31: push and pop at the same end are inverse.  On a well-formed list with
\* x detached, push_front(x) followed by pop_front(), and push_back(x)
\* followed by pop_back(), give the sentinel and every element that was linked
\* the next and prev they had before, and leave x detached with null links.
C31_PushPopInverse ==
  out # <<>> =>
    LET b == out[1]
    IN  /\ mem[head_] = b.base[head_]
        /\ \A e \in Range(ref) : mem[get_node(e)] = b.base[get_node(e)]
        /\ Iterate(b.base) = [ok |-> TRUE, items |-> ref]
        /\ b.x \notin Range(ref)
        /\ mem[get_node(b.x)] = [next |-> Null, prev |-> Null]

C31_Witness ==
  /\ out # <<>>
  /\ out[1].at = "back"
  /\ Len(ref) >= 2
  /\ mem[head_] = out[1].base[head_]
  /\ mem[get_node(out[1].x)] = [next |-> Null, prev |-> Null]

====
